---- MODULE Spec2Model ----
(***************************************************************************)
(* Model of omgtools/problems/gcodeschedulerproblem.py:                    *)
(* GCodeSchedulerProblem, the receding-horizon scheduler that keeps a      *)
(* sliding window of n_segments corridors ("rooms") of a G-code program,   *)
(* hands the window to a local GCodeProblem and advances the window when   *)
(* the tool has reached the exit point of the first segment.               *)
(*                                                                         *)
(* Python indices are kept 0-based in the state (n_current_block, the      *)
(* 'number' of a segment, the idx of a room); rooms[k] of the code is      *)
(* rooms[k+1] here.                                                        *)
(***************************************************************************)
EXTENDS Integers, Sequences, FiniteSets, TLC

(* ------------------------------ bounds --------------------------------- *)
MaxBlocks == 4      \* longest G-code program considered
MaxN      == 3      \* largest look-ahead n_segments considered
MaxTicks  == 4      \* number of solve() calls in one run

(* ------------------------------ inputs --------------------------------- *)
P0  == <<0, 0, 0>>
P1  == <<10, 0, 0>>
P2  == <<10, 10, 0>>
Mid == <<4, 2, 0>>          \* a tool position that is no waypoint of any block

NoCenter == <<>>

\* G01 line blocks and one G03 (counter-clockwise) half circle from P1 back
\* to P0 around (5,0,0); L11 is a zero-length block.
L01 == [type |-> "G01", start |-> P0, end |-> P1, center |-> NoCenter, radius |-> 0]
L12 == [type |-> "G01", start |-> P1, end |-> P2, center |-> NoCenter, radius |-> 0]
L11 == [type |-> "G01", start |-> P1, end |-> P1, center |-> NoCenter, radius |-> 0]
A10 == [type |-> "G03", start |-> P1, end |-> P0, center |-> <<5, 0, 0>>, radius |-> 5]

BlockTypes == {L01, L12, L11, A10}

Programs == UNION {[1..n -> BlockTypes] : n \in 1..MaxBlocks}

(* ------------------------------ helpers -------------------------------- *)
Last(s) == s[Len(s)]

Min(a, b) == IF a <= b THEN a ELSE b

Abs(a) == IF a < 0 THEN -a ELSE a

\* Python s[a:b] for 0 <= a <= b (slices clamp to the length of the list)
Slice(s, a, b) == SubSeq(s, Min(a, Len(s)) + 1, Min(b, Len(s)))

\* Python range(a, b) as a sequence
Range(a, b) == [i \in 1..(IF b > a THEN b - a ELSE 0) |-> a + i - 1]

\* distance_between_points for the axis-parallel blocks of BlockTypes (at most
\* one coordinate differs, so the Euclidean norm is that difference)
distance_between_points(p, q) == Abs(q[1] - p[1]) + Abs(q[2] - p[2]) + Abs(q[3] - p[3])

\* np.arctan2(dy, dx) in degrees, for the axis-parallel directions of BlockTypes
arctan2(dy, dx) ==
    IF dy = 0 THEN (IF dx < 0 THEN 180 ELSE 0)
    ELSE IF dy > 0 THEN 90 ELSE -90

(* ------------------------- get_environment ----------------------------- *)
\* the room built for one block; idx stands for the identity of the room
\* object (its position in Environment.rooms)
Room(block, k) ==
    IF block.type \in {"G00", "G01"}
    THEN [idx   |-> k,
          shape |-> [kind   |-> "Rectangle",
                     width  |-> distance_between_points(block.start, block.end),
                     orientation |-> arctan2(block.end[2] - block.start[2],
                                             block.end[1] - block.start[1])],
          pose  |-> <<block.start[1] + (block.end[1] - block.start[1]) \div 2,
                      block.start[2] + (block.end[2] - block.start[2]) \div 2,
                      block.start[3] + (block.end[3] - block.start[3]) \div 2,
                      arctan2(block.end[2] - block.start[2],
                              block.end[1] - block.start[1]), 0, 0>>,
          start |-> block.start,
          end   |-> block.end]
    ELSE [idx   |-> k,
          shape |-> [kind      |-> "Ring",
                     radius    |-> block.radius,
                     direction |-> IF block.type = "G02" THEN "CW" ELSE "CCW"],
          pose  |-> block.center \o <<0, 0, 0>>,
          start |-> block.start,
          end   |-> block.end]

get_environment(G) == [i \in 1..Len(G) |-> Room(G[i], i - 1)]

\* the block list as get_environment leaves it: for an arc, pose is the
\* block's own center list and pose.extend([0,0,0]) lengthens that list
BlocksAfterEnvironment(G) ==
    [i \in 1..Len(G) |->
        IF G[i].type \in {"G02", "G03"}
        THEN [G[i] EXCEPT !.center = G[i].center \o <<0, 0, 0>>]
        ELSE G[i]]

(* ------------------------------ state ---------------------------------- *)
VARIABLES
    GCode,            \* the MotionBlocks handed to the constructor
    rooms,            \* self.environment.rooms
    n_segments,       \* self.n_segments, the look-ahead N
    n_current_block,  \* self.n_current_block
    curr_state,       \* self.curr_state
    goal_state,       \* self.goal_state
    segments,         \* self.segments, the window
    cnt,              \* self.cnt
    local_problem,    \* self.local_problem, NoProblem while the attribute is missing
    init_guess,       \* self.init_guess / the guess handed to reset_init_guess
    motion_times,     \* self.motion_times
    update_times,     \* self.update_times
    veh_prediction,   \* vehicles[0].prediction['state']
    veh_signals,      \* vehicles[0].signals['state'][:,-1], NoSignals before the first simulate
    veh_poseT,        \* vehicles[0].poseT, the terminal condition of the vehicle
    pc,               \* position of the caller's loop
    err,              \* exception that left the last handler, "none" otherwise
    stop,             \* last value returned by stop_criterium
    ticks,            \* number of solve() calls made
    n_build,          \* number of generate_problem() calls made
    n_solve,          \* number of local_problem.solve() calls made
    n_advance,        \* number of window shifts made by update_segments
    last_tick,        \* "none", "kept" or "advanced": branch taken by the last solve()
    calls,            \* collaborator calls made by the last handler, in order
    exact,            \* every simulate so far left the tool on the terminal point
    guess_segment,    \* argument of a direct call of get_init_guess_new_segment
    guess_result,     \* what that call raised or returned, NoResult before the call
    veh_greville      \* vehicles[0].basis.greville(), as numerators over GrevilleDen

vars == <<GCode, rooms, n_segments, n_current_block, curr_state, goal_state,
          segments, cnt, local_problem, init_guess, motion_times, update_times,
          veh_prediction, veh_signals, veh_poseT, pc, err, stop, ticks,
          n_build, n_solve, n_advance, last_tick, calls, exact,
          guess_segment, guess_result, veh_greville>>

NoProblem == [built |-> FALSE]
NoSignals == <<>>
NoSegment == <<>>
NoResult  == <<>>
NoGuess   == <<>>

\* Greville abscissae of the cubic B-spline bases on [0,1] with one and with
\* two knot intervals: 0, 1/3, 2/3, 1 and 0, 1/6, 1/2, 5/6, 1
GrevilleDen == 6
CubicOneInterval  == <<0, 2, 4, 6>>
CubicTwoIntervals == <<0, 1, 3, 5, 6>>

\* the state of the tool that the vehicle reports
LiveState == IF veh_signals = NoSignals THEN veh_prediction ELSE veh_signals

(* --------------------------- create_segment ---------------------------- *)
\* border keeps the room's shape and pose objects; number is the value of
\* n_current_block at the time of the call
create_segment(block, ncb) ==
    [border |-> [room |-> block.idx, shape |-> block.shape, pose |-> block.pose,
                 orientation |-> 0],
     number |-> ncb,
     start  |-> block.start,
     end    |-> block.end]

(* --------------------------- check_segments ---------------------------- *)
check_segments_inverted ==
    \A i \in 1..3 : curr_state[i] = segments[1].end[i]

\* True (segments still valid) when some coordinate of curr_state differs from
\* the exit point of the first segment
check_segments ==
    \E i \in 1..3 : curr_state[i] # segments[1].end[i]

(* ----------------------- get_init_guess_new_segment -------------------- *)
\* a <= b for fractions <<numerator, denominator>>
frac_leq(a, b) ==
    IF a[2] * b[2] > 0 THEN a[1] * b[2] <= b[1] * a[2]
                       ELSE a[1] * b[2] >= b[1] * a[2]

frac_lt(a, b) == ~frac_leq(b, a)

frac_eq(a, b) == a[1] * b[2] = b[1] * a[2]

\* np.cos and np.sin of an angle in degrees that is a multiple of 90
cos(a) == LET m == a % 360 IN IF m = 0 THEN 1 ELSE IF m = 180 THEN -1 ELSE 0
sin(a) == LET m == a % 360 IN IF m = 90 THEN 1 ELSE IF m = 270 THEN -1 ELSE 0

\* line 398: np.linspace(a, b, 50), of which the samples at the multiples of
\* 90 degrees are kept, both ends included; all samples are equal when a = b
linspace(a, b) ==
    LET n == Abs(b - a) \div 90
        d == IF b >= a THEN 90 ELSE -90
    IN IF n = 0 THEN <<a, b>> ELSE [i \in 1..(n + 1) |-> a + (i - 1) * d]

\* lines 386-402: the waypoints of the centerline.  A rectangle has the two
\* points start and end; a ring is sampled between the start and end angles,
\* which are taken from x and y only, and its z is 0
center_points(segment) ==
    IF segment.border.shape.kind = "Rectangle"
    THEN <<segment.start, segment.end>>
    ELSE LET pose == segment.border.pose
             a0   == arctan2(segment.start[2] - pose[2], segment.start[1] - pose[1])
             b0   == arctan2(segment.end[2] - pose[2], segment.end[1] - pose[1])
             dir  == segment.border.shape.direction
             start_angle == IF dir = "CW" /\ a0 < b0 THEN a0 + 360 ELSE a0
             end_angle   == IF dir = "CCW" /\ a0 > b0 THEN b0 + 360 ELSE b0
             ss     == linspace(start_angle, end_angle)
             radius == segment.border.shape.radius
         IN [i \in 1..Len(ss) |-> <<pose[1] + radius * cos(ss[i]),
                                    pose[2] + radius * sin(ss[i]),
                                    0>>]

RECURSIVE travelled(_, _, _)
\* lines 412-415, 420-432: the sum of the first n increments on one axis
travelled(points, axis, n) ==
    IF n = 0 THEN 0
    ELSE travelled(points, axis, n - 1) + (points[n + 1][axis] - points[n][axis])

\* l_x, l_y, l_z
axis_length(points, axis) == travelled(points, axis, Len(points) - 1)

\* lines 437-445: 1 - t < 1e-5 for the fraction t = <<numerator, denominator>>
near_one(t) ==
    IF t[2] > 0 THEN (t[2] - t[1]) * 100000 < t[2]
                ELSE (t[2] - t[1]) * 100000 > t[2]

\* lines 418-432: time_x, time_y or time_z as first built, each entry a
\* fraction <<numerator, denominator>>: 0 throughout when the axis length is
\* 0, else the travelled share of the axis length
raw_time_vector(points, axis) ==
    [i \in 1..Len(points) |->
        IF axis_length(points, axis) = 0
        THEN <<0, 1>>
        ELSE <<travelled(points, axis, i - 1), axis_length(points, axis)>>]

\* lines 437-445: entries near 1 (or beyond) are set to 1
clamped(time) ==
    [i \in 1..Len(time) |-> IF near_one(time[i]) THEN <<1, 1>> ELSE time[i]]

\* lines 418-445
time_vector(points, axis) == clamped(raw_time_vector(points, axis))

\* all(t == 0 for t in time)
all_zero(time) == \A i \in 1..Len(time) : time[i][1] = 0

no_progress_any_axis(time_x, time_y, time_z) ==
    all_zero(time_x) \/ all_zero(time_y) \/ all_zero(time_z)

\* line 448: the test of the RuntimeError
no_progress(time_x, time_y, time_z) ==
    all_zero(time_x) /\ all_zero(time_y) /\ all_zero(time_z)

\* line 448 on the time vectors of the waypoints
raises_no_progress(points) ==
    no_progress(time_vector(points, 1), time_vector(points, 2), time_vector(points, 3))

\* lines 455-472: a time vector that is all zero is replaced by the first of
\* the two others that is not
borrowed(time, first, second) ==
    IF all_zero(time) THEN (IF ~all_zero(first) THEN first ELSE second) ELSE time

\* the float nan, as a fraction
NaN == <<0, 0>>

\* place of entry i of time in np.argsort(time, kind='mergesort'), the stable
\* sort with which interp1d orders its abscissae
sorted_place(time, i) ==
    Cardinality({j \in 1..Len(time) :
                    \/ frac_lt(time[j], time[i])
                    \/ (frac_eq(time[j], time[i]) /\ j < i)}) + 1

argsort(time) ==
    [r \in 1..Len(time) |-> CHOOSE i \in 1..Len(time) : sorted_place(time, i) = r]

\* np.clip(v, lo, hi)
clip(v, lo, hi) == IF v < lo THEN lo ELSE IF v > hi THEN hi ELSE v

\* lines 474-476: interp1d(time, values, kind='linear', bounds_error=False,
\* fill_value=1.) evaluated at the fraction g: outside the abscissae the fill
\* value, else the line through the two neighbours that searchsorted finds
interp1d(time, values, g) ==
    LET ind == argsort(time)
        n   == Len(time)
        hi0 == clip(Cardinality({j \in 1..n : frac_lt(time[j], g)}), 1, n - 1)
        lo  == ind[hi0]
        hi  == ind[hi0 + 1]
        num == (g[1] * time[lo][2] - time[lo][1] * g[2]) * time[hi][2]
        den == g[2] * (time[hi][1] * time[lo][2] - time[lo][1] * time[hi][2])
    IN IF frac_lt(g, time[ind[1]]) \/ frac_lt(time[ind[n]], g)
       THEN <<1, 1>>
       ELSE IF den = 0 THEN NaN
       ELSE <<values[lo] * den + (values[hi] - values[lo]) * num, den>>

\* lines 480-482: coeffs_x, coeffs_y or coeffs_z
coeffs(time, points, axis) ==
    [i \in 1..Len(veh_greville) |->
        interp1d(time, [k \in 1..Len(points) |-> points[k][axis]],
                 <<veh_greville[i], GrevilleDen>>)]

\* lines 489-490: init_guess[-3] = init_guess[-1]; init_guess[-4] = init_guess[-1]
final_rows(rows) ==
    [i \in 1..Len(rows) |->
        IF i \in {Len(rows) - 2, Len(rows) - 3} THEN rows[Len(rows)] ELSE rows[i]]

\* line 483 and lines 489-490: one row <<x, y, z>> per coefficient
coefficient_rows(tx, ty, tz, points) ==
    final_rows([i \in 1..Len(veh_greville) |->
                   <<coeffs(tx, points, 1)[i], coeffs(ty, points, 2)[i],
                     coeffs(tz, points, 3)[i]>>])

\* lines 455-492: the guess: the coefficient rows, with the interpolation
\* data they were computed from (the waypoints and, per axis, the time
\* vector) and the squared length that the motion time is computed from
centerline_guess(points) ==
    LET tx == borrowed(time_vector(points, 1), time_vector(points, 2), time_vector(points, 3))
        ty == borrowed(time_vector(points, 2), tx, time_vector(points, 3))
        tz == borrowed(time_vector(points, 3), tx, ty)
    IN [points |-> points,
        time   |-> <<tx, ty, tz>>,
        init_guess |-> coefficient_rows(tx, ty, tz, points),
        length_squared |-> axis_length(points, 1) * axis_length(points, 1)
                           + axis_length(points, 2) * axis_length(points, 2)
                           + axis_length(points, 3) * axis_length(points, 3)]

\* lines 383-492: what the call raises or returns
get_init_guess_new_segment(segment) ==
    IF raises_no_progress(center_points(segment))
    THEN [raised |-> TRUE, guess |-> NoGuess]
    ELSE [raised |-> FALSE, guess |-> centerline_guess(center_points(segment))]

\* the centerline guess of the segment raises its RuntimeError
Degenerate(segment) == raises_no_progress(center_points(segment))

CenterSpline(segment) == [kind |-> "centerline", room |-> segment.border.room]
CenterTime(segment)   == [kind |-> "centerline", room |-> segment.border.room]

\* a father.get_variables call on the current local problem, as logged in calls
Read(name, k) == <<"get_variables", name, k>>

\* any other collaborator call, as logged in calls
Call(name) == <<name, "", 0>>

(* ---------------------- get_init_guess_combined_segment ---------------- *)
CombinedSpline == [kind |-> "stitch", of |-> <<"splines_seg0", "splines_seg1">>]
CombinedTime   == [kind |-> "sum", of |-> <<"T0", "T1">>]
CombinedReads  == <<Read("splines_seg", 0), Read("splines_seg", 1), Read("T", 0), Read("T", 1)>>

\* values read from the solved local problem
SolvedSpline(k) == [kind |-> "solved", of |-> k]
SolvedTime(k)   == [kind |-> "T", of |-> k]

(* ------------------------------ get_init_guess ------------------------- *)
HasPrior == local_problem.built /\ local_problem.solved

\* the reads of the retained slots k = 2..N-1, spline then time for each k
KeptReads(keepK) ==
    [j \in 1..(2 * Len(keepK)) |->
        IF j % 2 = 1 THEN Read("splines_seg", keepK[(j + 1) \div 2])
                     ELSE Read("T", keepK[j \div 2])]

kept_slots_from_one == Range(1, n_segments)

\* line 350: range(2, self.n_segments), the slots whose solution is re-used
kept_slots == Range(2, n_segments)

\* position (1-based, in idxs) of the first index whose centerline guess
\* raises, 0 when none does
FirstBad(segs, idxs) ==
    LET bad == {j \in 1..Len(idxs) :
                   \/ idxs[j] >= Len(segs)
                   \/ Degenerate(segs[idxs[j] + 1])}
    IN IF bad = {} THEN 0 ELSE CHOOSE j \in bad : \A m \in bad : j <= m

\* result of get_init_guess on the window segs: the exception it raises (or
\* "none"), the guess, and the reads of the previous solution it made
get_init_guess(segs, singular) ==
    LET N     == n_segments
        prior == HasPrior
        comb  == prior /\ N > 1
        keepK == IF prior /\ N > 2 THEN kept_slots ELSE <<>>
        idxs  == IF prior THEN <<N - 1>> ELSE Range(0, N)
        bad   == FirstBad(segs, idxs)
        reads == IF comb THEN CombinedReads ELSE <<>>
    IN IF comb /\ singular
       THEN [err |-> "LinAlgError", splines |-> <<>>, times |-> <<>>, reads |-> reads]
       ELSE IF bad # 0
       THEN [err |-> IF idxs[bad] >= Len(segs) THEN "IndexError" ELSE "RuntimeError",
             splines |-> <<>>, times |-> <<>>,
             reads |-> reads \o KeptReads(keepK)]
       ELSE [err |-> "none",
             splines |-> (IF comb THEN <<CombinedSpline>> ELSE <<>>)
                         \o [j \in 1..Len(keepK) |-> SolvedSpline(keepK[j])]
                         \o [j \in 1..Len(idxs) |-> CenterSpline(segs[idxs[j] + 1])],
             times   |-> (IF comb THEN <<CombinedTime>> ELSE <<>>)
                         \o [j \in 1..Len(keepK) |-> SolvedTime(keepK[j])]
                         \o [j \in 1..Len(idxs) |-> CenterTime(segs[idxs[j] + 1])],
             reads   |-> reads \o KeptReads(keepK)]

(* ---------------------------- generate_problem ------------------------ *)
generate_problem_stale_rooms(ncb, segs, guess) ==
    [built      |-> TRUE,
     solved     |-> FALSE,
     rooms      |-> Slice(rooms, n_current_block, n_current_block + n_segments),
     segments   |-> segs,
     n_segments |-> n_segments,
     init_guess |-> guess]

\* the GCodeProblem built for the rooms rooms[ncb : ncb + n_segments] and the
\* window segs; reset_init_guess stores the guess in it
generate_problem(ncb, segs, guess) ==
    [built      |-> TRUE,
     solved     |-> FALSE,
     rooms      |-> Slice(rooms, ncb, ncb + n_segments),
     segments   |-> segs,
     n_segments |-> n_segments,
     init_guess |-> guess]

(* ------------------------------ stop_criterium ------------------------- *)
\* stop criterion of the local GCodeProblem: the tool rests on the terminal
\* point that set_terminal_conditions gave the vehicle
LocalStop == LiveState = veh_poseT

stop_criterium_not_last ==
    IF Last(segments).end # goal_state
    THEN (IF LocalStop THEN "True" ELSE "None")
    ELSE "False"

stop_criterium_no_local ==
    IF Last(segments).end = goal_state THEN "True" ELSE "False"

\* value returned: "True", "False", or "None" when the inner test falls through
stop_criterium ==
    IF Last(segments).end = goal_state
    THEN (IF LocalStop THEN "True" ELSE "None")
    ELSE "False"

(* ------------------------------- __init__ ------------------------------ *)
Init ==
    \E G \in Programs, N \in 1..MaxN :
        /\ GCode = BlocksAfterEnvironment(G)
        /\ rooms = get_environment(G)
        /\ n_segments = N
        /\ n_current_block = 0
        /\ veh_prediction = G[1].start
        /\ veh_signals = NoSignals
        /\ veh_poseT = Last(G).end
        /\ curr_state = G[1].start
        /\ goal_state = Last(G).end
        /\ segments = <<>>
        /\ cnt = 0
        /\ local_problem = NoProblem
        /\ init_guess = <<>>
        /\ motion_times = <<>>
        /\ update_times = <<>>
        /\ pc = "init"
        /\ err = "none"
        /\ stop = "False"
        /\ ticks = 0
        /\ n_build = 0
        /\ n_solve = 0
        /\ n_advance = 0
        /\ last_tick = "none"
        /\ calls = <<>>
        /\ exact = TRUE
        /\ guess_segment = NoSegment
        /\ guess_result = NoResult
        /\ veh_greville = CubicTwoIntervals

(* ------------------------------ reinitialize --------------------------- *)
FirstWindow_one_more ==
    LET next_blocks == Slice(rooms, n_current_block, n_current_block + n_segments + 1)
    IN [k \in 1..Len(next_blocks) |-> create_segment(next_blocks[k], n_current_block)]

\* the window created by reinitialize
FirstWindow ==
    LET next_blocks == Slice(rooms, n_current_block, n_current_block + n_segments)
    IN [k \in 1..Len(next_blocks) |-> create_segment(next_blocks[k], n_current_block)]

Reinitialize ==
    /\ pc = "init"
    /\ LET segs  == FirstWindow
           guess == get_init_guess(segs, FALSE)
       IN /\ segments' = segs
          /\ cnt' = Len(rooms)
          /\ IF guess.err # "none"
             THEN /\ err' = guess.err
                  /\ pc' = "error"
                  /\ calls' = guess.reads
                  /\ UNCHANGED <<motion_times, veh_poseT, local_problem, n_build>>
             ELSE /\ motion_times' = guess.times
                  /\ veh_poseT' = Last(segs).end
                  /\ local_problem' = generate_problem(n_current_block, segs, guess.splines)
                  /\ n_build' = n_build + 1
                  /\ calls' = guess.reads \o <<Call("generate_problem"), Call("reset_init_guess")>>
                  /\ pc' = "solve"
                  /\ UNCHANGED err
    /\ UNCHANGED <<GCode, rooms, n_segments, n_current_block, curr_state, goal_state,
                   init_guess, update_times, veh_prediction, veh_signals, stop,
                   ticks, n_solve, n_advance, last_tick, exact,
                   guess_segment, guess_result, veh_greville>>

(* --------------------------------- solve ------------------------------- *)
SolveLocal_masked(lp, solve_ok, before) ==
    /\ n_solve' = n_solve + 1
    /\ calls' = before \o <<Call("solve")>>
    /\ local_problem' = [lp EXCEPT !.solved = (solve_ok \/ lp.solved)]
    /\ update_times' = Append(update_times, ticks + 1)
    /\ curr_state' = LiveState
    /\ IF solve_ok
       THEN pc' = "simulate" /\ UNCHANGED err
       ELSE pc' = "error" /\ err' = "OptimizerFailure"

\* lines 123-135: the optimizer is invoked on problem lp; when it fails its
\* exception leaves solve, otherwise the solve time and the state are recorded
SolveLocal(lp, solve_ok, before) ==
    /\ n_solve' = n_solve + 1
    /\ calls' = before \o <<Call("solve")>>
    /\ IF solve_ok
       THEN /\ local_problem' = [lp EXCEPT !.solved = TRUE]
            /\ update_times' = Append(update_times, ticks + 1)
            /\ curr_state' = LiveState
            /\ pc' = "simulate"
            /\ UNCHANGED err
       ELSE /\ local_problem' = lp
            /\ err' = "OptimizerFailure"
            /\ pc' = "error"
            /\ UNCHANGED <<update_times, curr_state>>

KeepBranch_rebuild(solve_ok) ==
    /\ last_tick' = "kept"
    /\ motion_times' = [k \in 1..Len(motion_times) |->
                           IF k <= n_segments THEN SolvedTime(k - 1) ELSE motion_times[k]]
    /\ n_build' = n_build + 1
    /\ SolveLocal(generate_problem(n_current_block, segments, init_guess), solve_ok,
                  [k \in 1..n_segments |-> Read("T", k - 1)] \o <<Call("generate_problem")>>)
    /\ UNCHANGED <<n_current_block, segments, init_guess, veh_poseT, n_advance>>

KeepBranch_no_refresh(solve_ok) ==
    /\ last_tick' = "kept"
    /\ SolveLocal(local_problem, solve_ok, <<>>)
    /\ UNCHANGED <<n_current_block, segments, init_guess, veh_poseT, n_build, n_advance,
                   motion_times>>

\* lines 116-121: the window is kept, the motion times are read back
KeepBranch(solve_ok) ==
    /\ last_tick' = "kept"
    /\ motion_times' = [k \in 1..Len(motion_times) |->
                           IF k <= n_segments THEN SolvedTime(k - 1) ELSE motion_times[k]]
    /\ SolveLocal(local_problem, solve_ok,
                  [k \in 1..n_segments |-> Read("T", k - 1)])
    /\ UNCHANGED <<n_current_block, segments, init_guess, veh_poseT, n_build, n_advance>>

\* line 307: self.segments[1:]
drop_first_unchanged(segs) == segs

drop_first(segs) == Tail(segs)

\* line 309: index of the room of the new last segment, ncb already incremented
new_index_no_offset(ncb) == ncb

new_index(ncb) == ncb + (n_segments - 1)

advance_calls_build_first(reads) ==
    <<Call("generate_problem"), Call("reset_init_guess")>> \o reads

\* lines 109-115: update_segments (with the reads of get_init_guess), then
\* generate_problem and reset_init_guess
advance_calls(reads) ==
    reads \o <<Call("generate_problem"), Call("reset_init_guess")>>

\* lines 107-115 with update_segments (303-315)
AdvanceBranch(solve_ok, singular) ==
    LET ncb  == n_current_block + 1
        segs == drop_first(segments)
        new  == new_index(ncb)
    IN /\ last_tick' = "advanced"
       /\ n_current_block' = ncb
       /\ IF new >= Len(rooms)
          THEN \* rooms[new] raises IndexError
               /\ segments' = segs
               /\ err' = "IndexError"
               /\ pc' = "error"
               /\ calls' = <<>>
               /\ UNCHANGED <<init_guess, motion_times, veh_poseT, local_problem, n_build,
                              n_solve, n_advance, update_times, curr_state>>
          ELSE LET segs2 == Append(segs, create_segment(rooms[new + 1], ncb))
                   guess == get_init_guess(segs2, singular)
               IN /\ segments' = segs2
                  /\ n_advance' = n_advance + 1
                  /\ IF guess.err # "none"
                     THEN /\ err' = guess.err
                          /\ pc' = "error"
                          /\ calls' = guess.reads
                          /\ UNCHANGED <<init_guess, motion_times, veh_poseT, local_problem,
                                         n_build, n_solve, update_times, curr_state>>
                     ELSE /\ init_guess' = guess.splines
                          /\ motion_times' = guess.times
                          /\ veh_poseT' = Last(segs2).end
                          /\ n_build' = n_build + 1
                          /\ SolveLocal(generate_problem(ncb, segs2, guess.splines), solve_ok,
                                        advance_calls(guess.reads))

Solve(solve_ok, singular) ==
    /\ pc = "solve"
    /\ ticks < MaxTicks
    /\ ticks' = ticks + 1
    /\ IF check_segments
       THEN KeepBranch(solve_ok)
       ELSE AdvanceBranch(solve_ok, singular)
    /\ UNCHANGED <<GCode, rooms, n_segments, goal_state, cnt, veh_prediction,
                   veh_signals, stop, exact, guess_segment, guess_result, veh_greville>>

(* -------------------------------- simulate ----------------------------- *)
\* positions the simulated tool can be left on after one update: where it
\* was, the exit point of a segment of the window, or between waypoints
ToolPositions == {LiveState, Mid} \cup {segments[k].end : k \in 1..Len(segments)}

Simulate ==
    /\ pc = "simulate"
    /\ \E p \in ToolPositions :
          /\ veh_signals' = p
          /\ exact' = (exact /\ p = veh_poseT)
    /\ pc' = "check"
    /\ calls' = <<Call("simulate")>>
    /\ UNCHANGED <<GCode, rooms, n_segments, n_current_block, curr_state, goal_state,
                   segments, cnt, local_problem, init_guess, motion_times, update_times,
                   veh_prediction, veh_poseT, err, stop, ticks, n_build, n_solve,
                   n_advance, last_tick, guess_segment, guess_result, veh_greville>>

(* ----------------------- the caller's stop test ------------------------ *)
StopCheck ==
    /\ pc = "check"
    /\ stop' = stop_criterium
    /\ pc' = IF stop_criterium = "True" THEN "done" ELSE "solve"
    /\ calls' = <<Call("stop_criterium")>>
    /\ UNCHANGED <<GCode, rooms, n_segments, n_current_block, curr_state, goal_state,
                   segments, cnt, local_problem, init_guess, motion_times, update_times,
                   veh_prediction, veh_signals, veh_poseT, err, ticks, n_build, n_solve,
                   n_advance, last_tick, exact, guess_segment, guess_result, veh_greville>>

Next ==
    \/ Reinitialize
    \/ \E solve_ok \in BOOLEAN, singular \in BOOLEAN : Solve(solve_ok, singular)
    \/ Simulate
    \/ StopCheck

Spec == Init /\ [][Next]_vars

(* ------------ get_init_guess_new_segment called on its own ------------- *)
Coords == {0, 10}

Points == {<<x, y, z>> : x \in Coords, y \in Coords, z \in Coords}

\* points on the circle of radius 5 around (5,0,0), in the XY-plane
CirclePoints == {<<10, 0, 0>>, <<5, 5, 0>>, <<0, 0, 0>>, <<5, -5, 0>>}

\* line blocks of zero length or along one axis
GuessLines ==
    {[type |-> "G01", start |-> p, end |-> q, center |-> NoCenter, radius |-> 0] :
        <<p, q>> \in {pq \in Points \X Points :
                        Cardinality({i \in 1..3 : pq[1][i] # pq[2][i]}) <= 1}}

\* clockwise and counter-clockwise arcs, the full circle (start = end) included
GuessArcs ==
    {[type |-> t, start |-> pq[1], end |-> pq[2], center |-> <<5, 0, 0>>, radius |-> 5] :
        t \in {"G02", "G03"}, pq \in CirclePoints \X CirclePoints}

GuessSegments == {create_segment(Room(b, 0), 0) : b \in GuessLines \cup GuessArcs}

\* no scheduler is running: only the segment handed to the generator varies
GuessInit ==
    /\ guess_segment \in GuessSegments
    /\ guess_result = NoResult
    /\ veh_greville \in {CubicOneInterval, CubicTwoIntervals}
    /\ pc = "guess"
    /\ GCode = <<>> /\ rooms = <<>> /\ segments = <<>>
    /\ n_segments = 1 /\ n_current_block = 0 /\ cnt = 0
    /\ curr_state = guess_segment.start /\ goal_state = guess_segment.end
    /\ veh_prediction = guess_segment.start /\ veh_signals = NoSignals
    /\ veh_poseT = guess_segment.end
    /\ local_problem = NoProblem /\ init_guess = <<>>
    /\ motion_times = <<>> /\ update_times = <<>>
    /\ err = "none" /\ stop = "False" /\ ticks = 0
    /\ n_build = 0 /\ n_solve = 0 /\ n_advance = 0
    /\ last_tick = "none" /\ calls = <<>> /\ exact = TRUE

CallGuess ==
    /\ pc = "guess"
    /\ guess_result' = get_init_guess_new_segment(guess_segment)
    /\ err' = IF guess_result'.raised THEN "RuntimeError" ELSE "none"
    /\ pc' = "guessed"
    /\ UNCHANGED <<GCode, rooms, n_segments, n_current_block, curr_state, goal_state,
                   segments, cnt, local_problem, init_guess, motion_times, update_times,
                   veh_prediction, veh_signals, veh_poseT, stop, ticks, n_build,
                   n_solve, n_advance, last_tick, calls, exact, guess_segment, veh_greville>>

GuessNext == CallGuess

SpecGuess == GuessInit /\ [][GuessNext]_vars

(* ======================================================================= *)
(*                                 claims                                  *)
(* ======================================================================= *)

\* a step that is one call of solve()
TickStep == pc = "solve" /\ ticks' = ticks + 1

\* the tool state recorded by the previous tick is the exit point of window[0]
AtExit == curr_state = segments[1].end

\* position in the corridor sequence of the room of window segment k
Corridor(k) == segments[k].border.room

\* every block has distinct entry and exit points and starts where the
\* previous block ends
WellFormed ==
    /\ \A i \in 1..Len(rooms) : rooms[i].start # rooms[i].end
    /\ \A i \in 2..Len(rooms) : rooms[i].start = rooms[i - 1].end

\* C1 as stated: in a tick the window is advanced exactly when the recorded
\* tool state is NOT equal to the exit point of window[0], and kept when it
\* is equal.
C1_AdvanceIffNotAtExit ==
    [][TickStep => ((segments' # segments) <=> ~AtExit)]_vars

\* C1 amended: in a tick the window is advanced (first segment dropped, counter
\* incremented) exactly when the recorded tool state EQUALS the exit point of
\* window[0] on every axis; when some coordinate differs the window and the
\* counter are kept.
C1_AdvanceIffAtExit ==
    [][TickStep =>
         /\ AtExit => (segments' # segments /\ n_current_block' = n_current_block + 1)
         /\ ~AtExit => (segments' = segments /\ n_current_block' = n_current_block)]_vars

C1_Witness ==
    /\ last_tick = "advanced"
    /\ err = "none"
    /\ n_advance = 1
    /\ ticks >= 2

\* C2: after reinitialize and after any sequence of ticks the window is a
\* contiguous slice of the corridor sequence in program order: its segments
\* are built from rooms[i], rooms[i+1], ..., rooms[i+n-1] for some i.
C2_WindowContiguous ==
    pc # "init" =>
        \E i \in 0..Len(rooms) :
            \A k \in 1..Len(segments) :
                /\ Corridor(k) = i + k - 1
                /\ Corridor(k) < Len(rooms)
                /\ segments[k].start = rooms[Corridor(k) + 1].start
                /\ segments[k].end = rooms[Corridor(k) + 1].end
                /\ segments[k].border.shape = rooms[Corridor(k) + 1].shape
                /\ segments[k].border.pose = rooms[Corridor(k) + 1].pose

C2_Witness ==
    /\ n_advance >= 2
    /\ err = "none"
    /\ Len(segments) >= 2
    /\ pc = "simulate"

\* C3: an advance removes exactly the first segment, keeps the others in their
\* order, appends the segment of the corridor one past the previous last window
\* corridor and increments n_current_block by one; no other step changes the
\* counter.
C3_AdvanceShiftsByOne ==
    [][/\ (TickStep /\ AtExit /\ Corridor(Len(segments)) + 1 < Len(rooms)) =>
            /\ Len(segments') = Len(segments)
            /\ \A k \in 1..(Len(segments) - 1) : segments'[k] = segments[k + 1]
            /\ Last(segments').border.room = Corridor(Len(segments)) + 1
            /\ Last(segments').start = rooms[Corridor(Len(segments)) + 2].start
            /\ Last(segments').end = rooms[Corridor(Len(segments)) + 2].end
            /\ n_current_block' = n_current_block + 1
       /\ (n_current_block' # n_current_block) =>
            (TickStep /\ AtExit /\ n_current_block' = n_current_block + 1)]_vars

C3_Witness ==
    /\ last_tick = "advanced"
    /\ n_advance >= 1
    /\ Len(segments) >= 2
    /\ segments[1].start = P1
    /\ n_current_block = 1

\* C4: in every state after reinitialize the window holds exactly
\* min(N, number of corridors - n_current_block) segments, so never more than N.
C4_WindowSize ==
    pc # "init" =>
        /\ Len(segments) = Min(n_segments, Len(rooms) - n_current_block)
        /\ Len(segments) <= n_segments

C4_Witness ==
    /\ pc # "init"
    /\ Len(rooms) < n_segments
    /\ Len(segments) = Len(rooms)

\* C5: when an advance is triggered while the window already contains the last
\* corridor, the advance succeeds (no read past the end of the corridor
\* sequence) and the window shrinks to the remaining corridor count.
C5_TailAdvanceSucceeds ==
    last_tick = "advanced" =>
        /\ err # "IndexError"
        /\ Len(segments) = Min(n_segments, Len(rooms) - n_current_block)

\* the 2-block program of the termination scenario, look-ahead 1, every
\* simulate leaving the tool on the terminal point of the local problem
C6_Scenario ==
    /\ rooms = get_environment(<<L01, L12>>)
    /\ n_segments = 1
    /\ exact

\* C6 as stated: the scenario terminates after exactly 2 window advances with
\* the tool at (10,10,0).
C6_TwoAdvances ==
    (C6_Scenario /\ pc = "done") => (n_advance = 2 /\ LiveState = P2)

\* C6 amended: the scenario terminates after exactly 1 window advance with the
\* tool at (10,10,0).
C6_OneAdvance ==
    (C6_Scenario /\ pc = "done") => (n_advance = 1 /\ LiveState = P2)

C6_Witness ==
    /\ C6_Scenario
    /\ pc = "done"
    /\ stop = "True"

\* C7: whenever stop_criterium reports true, the last segment of the window is
\* the last corridor of the program and the tool has reached GoalState.
C7_StopOnlyOnFinalSegment ==
    (WellFormed /\ calls = <<Call("stop_criterium")>> /\ stop = "True") =>
        /\ Corridor(Len(segments)) = Len(rooms) - 1
        /\ LiveState = goal_state

\* C8: stop_criterium returns a true value if and only if the exit point of
\* the last window segment equals GoalState and the stop criterion of the
\* local problem is satisfied.
C8_StopIff ==
    calls = <<Call("stop_criterium")>> =>
        /\ stop \in {"True", "None", "False"}
        /\ (stop = "True") <=> (Last(segments).end = goal_state /\ LocalStop)

C8_Witness ==
    /\ calls = <<Call("stop_criterium")>>
    /\ stop = "True"
    /\ n_advance >= 1

\* number of occurrences of the collaborator call c in the log of the last handler
Count(c) == Cardinality({i \in 1..Len(calls) : calls[i] = c})

\* C9: the local problem is built once at window creation and once per advance,
\* never in a tick that keeps the window, and the optimizer's solve is invoked
\* exactly once per tick, after the build of that tick.
C9_BuildSolveCadence ==
    /\ (pc # "init" /\ err = "none") =>
          /\ n_build = 1 + n_advance
          /\ n_solve = ticks
    /\ (pc = "simulate") =>
          /\ Count(Call("solve")) = 1
          /\ Last(calls) = Call("solve")
          /\ Count(Call("generate_problem")) = (IF last_tick = "advanced" THEN 1 ELSE 0)

C9_Witness ==
    /\ pc = "simulate"
    /\ last_tick = "kept"
    /\ n_advance >= 1
    /\ n_build = 2
    /\ n_solve = ticks

\* C10: the 'number' of every window segment equals the position of its
\* corridor in the corridor sequence, for every look-ahead.
C10_NumberIsPosition ==
    \A k \in 1..Len(segments) : segments[k].number = Corridor(k)

\* every block starts where the previous block ends
Contiguous == \A i \in 2..Len(rooms) : rooms[i].start = rooms[i - 1].end

\* C11: in a tick that keeps the window, the segments, the next-block counter
\* and the local problem instance are unchanged; the only scheduler data
\* rewritten before the optimizer is invoked are the motion times, one per
\* window slot k, each read from the optimizer's variable T_k.
C11_KeepTickFrame ==
    [][(TickStep /\ ~AtExit) =>
         /\ segments' = segments
         /\ n_current_block' = n_current_block
         /\ [local_problem' EXCEPT !.solved = local_problem.solved] = local_problem
         /\ n_build' = n_build
         /\ init_guess' = init_guess
         /\ veh_poseT' = veh_poseT
         /\ goal_state' = goal_state
         /\ cnt' = cnt
         /\ Len(motion_times') = Len(segments)
         /\ \A k \in 1..Len(segments) : motion_times'[k] = [kind |-> "T", of |-> k - 1]
         /\ calls' = [k \in 1..Len(segments) |-> <<"get_variables", "T", k - 1>>]
                     \o <<Call("solve")>>]_vars

C11_Witness ==
    /\ last_tick = "kept"
    /\ pc = "simulate"
    /\ n_segments = 2
    /\ n_advance = 1
    /\ motion_times = <<[kind |-> "T", of |-> 0], [kind |-> "T", of |-> 1]>>

\* C12: the loop does not keep ticking forever without advancing or
\* terminating.  Stated on finite runs: when every simulate has left the tool
\* exactly on the terminal point of the current window, the tool rests there,
\* the scheduler has recorded that position and the stop test has not ended the
\* loop, then the next tick advances the window (a tick that keeps the window
\* in this state changes neither the window nor the tool, so it repeats for
\* ever).
C12_RestingToolAdvances ==
    (/\ WellFormed
     /\ pc = "solve"
     /\ ticks >= 1
     /\ exact
     /\ LiveState = veh_poseT
     /\ curr_state = LiveState) => AtExit

\* C13: a singular linear system in the stitch of an advance does not abort the
\* tick: no LinAlgError leaves solve, the tick goes on to the optimizer solve.
C13_SingularStitchRecovered ==
    last_tick = "advanced" =>
        /\ err # "LinAlgError"
        /\ (err \notin {"IndexError", "RuntimeError"} => Count(Call("solve")) = 1)

\* C14: for every segment (line or arc) whose entry point equals its exit point
\* the centerline guess generator fails with its error and returns no guess;
\* for every segment with an axis of non-zero net displacement it returns a
\* guess and does not raise.
C14_DegenerateIffEntryIsExit ==
    pc = "guessed" =>
        /\ guess_segment.start = guess_segment.end =>
               /\ guess_result.raised
               /\ guess_result.guess = NoGuess
               /\ err = "RuntimeError"
        /\ guess_segment.start # guess_segment.end =>
               /\ ~guess_result.raised
               /\ guess_result.guess # NoGuess
               /\ err = "none"

C14_Witness ==
    /\ pc = "guessed"
    /\ guess_segment.border.shape.kind = "Ring"
    /\ guess_segment.start = guess_segment.end
    /\ guess_result.raised

\* C15: an advance that appends a segment fails with the RuntimeError of the
\* centerline guess exactly when the exit point of the appended segment equals
\* the current tool position.
C15_FailsIffGoalIsCurrent ==
    [][(/\ TickStep
        /\ AtExit
        /\ err' # "IndexError"
        /\ err' # "LinAlgError") =>
            ((err' = "RuntimeError") <=> (Last(segments').end = curr_state))]_vars

\* C16 as stated: for every corridor sequence the builder accepts, after an
\* advance the entry point of the new window[0] equals the exit point of the
\* segment just dropped.
C16_ContinuityAnyProgram ==
    [][(TickStep /\ AtExit /\ Len(segments') >= 1) =>
          segments'[1].start = segments[1].end]_vars

\* C16 amended: the same for every corridor sequence in which each block
\* starts at the exit point of the previous block.
C16_ContinuityContiguousProgram ==
    [][(TickStep /\ AtExit /\ Len(segments') >= 1 /\ Contiguous) =>
          segments'[1].start = segments[1].end]_vars

C16_Witness ==
    /\ Contiguous
    /\ last_tick = "advanced"
    /\ n_advance = 1
    /\ err = "none"
    /\ segments[1].start = curr_state

\* C17: when the optimizer's solve fails in a tick, its failure leaves solve,
\* the optimizer was invoked once in that tick, no solve time is recorded and
\* curr_state is not updated.
C17_OptimizerFailurePropagates ==
    [][(TickStep /\ err' = "OptimizerFailure") =>
         /\ pc' = "error"
         /\ Last(calls') = Call("solve")
         /\ n_solve' = n_solve + 1
         /\ Cardinality({i \in 1..Len(calls') : calls'[i] = Call("solve")}) = 1
         /\ update_times' = update_times
         /\ curr_state' = curr_state]_vars

C17_Witness ==
    /\ err = "OptimizerFailure"
    /\ ticks >= 2
    /\ Len(update_times) = ticks - 1
    /\ curr_state # LiveState

\* the guess and the motion times generated last: the guess is handed to the
\* local problem by reset_init_guess
C18_Layout(guess, times) ==
    /\ Len(guess) = n_segments
    /\ Len(times) = n_segments
    /\ guess[n_segments] = [kind |-> "centerline", room |-> Corridor(n_segments)]
    /\ times[n_segments] = [kind |-> "centerline", room |-> Corridor(n_segments)]
    /\ n_segments >= 2 =>
          /\ guess[1] = [kind |-> "stitch", of |-> <<"splines_seg0", "splines_seg1">>]
          /\ times[1] = [kind |-> "sum", of |-> <<"T0", "T1">>]
    /\ \A i \in 2..(n_segments - 1) :
          /\ guess[i] = [kind |-> "solved", of |-> i]
          /\ times[i] = [kind |-> "T", of |-> i]

\* C18: every generated guess has N spline entries and N motion times in
\* window order; at window creation all are centerline guesses; on an advance
\* entry 0 is the stitch of the previous slots 0 and 1 with time T0+T1 (N >= 2),
\* entries 1..N-2 are the previous slots 2..N-1 with their solved times, and
\* entry N-1 is a centerline guess for the appended segment.
C18_GuessLayout ==
    /\ (pc = "solve" /\ ticks = 0) =>
          /\ Len(local_problem.init_guess) = n_segments
          /\ Len(motion_times) = n_segments
          /\ \A k \in 1..n_segments :
                /\ local_problem.init_guess[k] = [kind |-> "centerline", room |-> Corridor(k)]
                /\ motion_times[k] = [kind |-> "centerline", room |-> Corridor(k)]
    /\ (pc = "simulate" /\ last_tick = "advanced") =>
          /\ C18_Layout(local_problem.init_guess, motion_times)
          /\ init_guess = local_problem.init_guess

C18_Witness ==
    /\ pc = "simulate"
    /\ last_tick = "advanced"
    /\ n_segments = 3
    /\ Len(init_guess) = 3

\* positions in the log of the last handler of the reads of solved values
ReadsAt == {i \in 1..Len(calls) : calls[i][1] = "get_variables"}

\* C19: in an advance tick every read of the previous solution comes before
\* the new local problem is built, none comes after, and the new problem is
\* solved in the same tick, so that a later tick reads a solved problem.
C19_ReadsBeforeBuild ==
    /\ (pc = "simulate" /\ last_tick = "advanced") =>
          /\ \A i \in ReadsAt : \A j \in 1..Len(calls) :
                calls[j] = Call("generate_problem") => i < j
          /\ Last(calls) = Call("solve")
          /\ local_problem.solved
          /\ n_segments >= 2 => Cardinality(ReadsAt) = 2 * n_segments
    /\ (pc = "solve" /\ ticks >= 1) => local_problem.solved

C19_Witness ==
    /\ pc = "simulate"
    /\ last_tick = "advanced"
    /\ n_segments = 3
    /\ Cardinality(ReadsAt) = 6

\* C20: every local problem built covers exactly the corridors of the window
\* it was built for, in the same order and number, and the terminal condition
\* given to the vehicle is the exit point of the last window segment.
C20_ProblemCoversWindow ==
    local_problem.built =>
        /\ Len(local_problem.rooms) = Len(local_problem.segments)
        /\ \A k \in 1..Len(local_problem.segments) :
              local_problem.rooms[k].idx = local_problem.segments[k].border.room
        /\ veh_poseT = Last(local_problem.segments).end
        /\ err = "none" => local_problem.segments = segments

C20_Witness ==
    /\ local_problem.built
    /\ n_advance >= 1
    /\ n_segments >= 2
    /\ err = "none"
    /\ local_problem.rooms[1].idx = 1

\* C21: building the corridors leaves every field of every MotionBlock as the
\* G-code front end produced it (each block is still one of the blocks handed
\* in), so building the corridors again from the same blocks yields the
\* corridors already built.
C21_BlocksUnchanged ==
    pc # "guess" /\ pc # "guessed" =>
        /\ \A i \in 1..Len(GCode) : GCode[i] \in BlockTypes
        /\ get_environment(GCode) = rooms

\* |1 - t| < 1e-5
close_to_one(t) == near_one(t) /\ near_one(<<2 * t[2] - t[1], t[2]>>)

\* the parameter sequence of one axis of the segment handed to the generator
AxisParameter(axis) == raw_time_vector(center_points(guess_segment), axis)

\* C23: for every non-degenerate segment the parameter sequence of every axis
\* is non-decreasing along the sampled centerline, every value lies in
\* [0,1], and the clamping step changes only values within 1e-5 of 1.
C23_ParameterMonotoneInUnitInterval ==
    (pc = "guessed" /\ ~guess_result.raised) =>
        \A axis \in 1..3 :
            /\ \A i \in 1..(Len(AxisParameter(axis)) - 1) :
                  frac_leq(AxisParameter(axis)[i], AxisParameter(axis)[i + 1])
            /\ \A i \in 1..Len(AxisParameter(axis)) :
                  /\ frac_leq(<<0, 1>>, AxisParameter(axis)[i])
                  /\ frac_leq(AxisParameter(axis)[i], <<1, 1>>)
                  /\ clamped(AxisParameter(axis))[i] # AxisParameter(axis)[i] =>
                        close_to_one(AxisParameter(axis)[i])

\* two coefficients are the same number (nan equals nothing)
same_value(a, b) == a[2] # 0 /\ b[2] # 0 /\ frac_eq(a, b)

\* C22: in every centerline guess the two coefficients immediately before
\* the final coefficient are equal to the final coefficient on every axis.
C22_LastThreeCoincide ==
    (pc = "guessed" /\ ~guess_result.raised) =>
        LET rows == guess_result.guess.init_guess
            n    == Len(rows)
        IN \A axis \in 1..3 :
              /\ same_value(rows[n - 1][axis], rows[n][axis])
              /\ same_value(rows[n - 2][axis], rows[n][axis])

====
